---------------------------- MODULE Spec2Model ----------------------------
(***************************************************************************)
(* A model of the infix calculator of src/src/main.rs and                  *)
(* src/src/expression.rs: main reads one line, Expression::from_str turns  *)
(* it into a tree by repeatedly splitting the string at the index chosen   *)
(* by find_minimum_priority_token, and Expression::evaluate reduces the    *)
(* tree to a number.                                                       *)
(*                                                                         *)
(* A string is a sequence of one-character strings.  Sequences are         *)
(* 1-based in TLA+; every index that the code computes (the byte offsets   *)
(* of char_indices, the parenthesis spans, the scanner's result) is kept   *)
(* 0-based as in the code, so the character at code index i is s[i + 1].   *)
(* Only ASCII input is modelled, for which byte offsets and character      *)
(* positions coincide.                                                     *)
(*                                                                         *)
(* The variables are those of main: the bytes waiting on standard input,   *)
(* the line buffer, the result of from_str, what was printed, and the      *)
(* position pc in main.  `given` is the environment's record of the line   *)
(* it typed (its shape and tokens); the program never reads it.            *)
(***************************************************************************)
EXTENDS Integers, Sequences, FiniteSets, TLC

VARIABLES given, stdin, buffer, pc, expression, output

vars == <<given, stdin, buffer, pc, expression, output>>

-----------------------------------------------------------------------------
(* Bounds of the model. *)

\* Longest line over Alphabet that the environment supplies.
MaxLen == 4

\* Most digits in the integer part of a literal of a templated input.
MaxDigits == 2

\* Longest chain of leading negation markers of a templated input.
MaxNeg == 3

\* Largest magnitude of a numerator or denominator that evaluate computes
\* exactly; a power beyond it is kept as an uninterpreted term.
MaxExact == 100000

-----------------------------------------------------------------------------
(* Program constants. *)

\* usize::MAX, the initial "not found" index.  TLC's integers are 32 bits
\* wide; the code only compares this value with string positions, so any
\* value above every string length behaves as 2^64 - 1 does.
USIZE_MAX == 2147483647

\* u8::MAX, the initial priority and the priority of an ordinary character.
U8_MAX == 255

\* The priority that the ordinary-token arm stores with a new best index.
STORED_PRIORITY == 6

-----------------------------------------------------------------------------
(* Characters. *)

Digits == {"0", "1", "2", "3", "4", "5", "6", "7", "8", "9"}

\* matches!(x, '+' | '-' | '*' | '/' | '^')
IsOperatorChar(c) == c \in {"+", "-", "*", "/", "^"}

\* char::is_ascii_whitespace: space, tab, line feed, form feed, carriage
\* return ("\f" is not part of any modelled input).
is_ascii_whitespace(c) == c \in {" ", "\t", "\n", "\r", "\f"}

\* The pattern of trim_matches in from_str.
TrimSet == {" ", "\n", "\r", "\t"}

\* s[a..b] of the code (0-based, end exclusive), for 0 <= a <= b <= len.
Slice(s, a, b) == SubSeq(s, a + 1, b)

RECURSIVE TrimStart(_)
TrimStart(s) ==
  IF s # <<>> /\ Head(s) \in TrimSet THEN TrimStart(Tail(s)) ELSE s

RECURSIVE TrimEnd(_)
TrimEnd(s) ==
  IF s # <<>> /\ s[Len(s)] \in TrimSet
  THEN TrimEnd(SubSeq(s, 1, Len(s) - 1))
  ELSE s

\* A trim of the end of the string only.
trim_matches_EndOnly(s) == TrimEnd(s)

\* s.trim_matches(&[' ', '\n', '\r', '\t'])
trim_matches(s) == TrimEnd(TrimStart(s))

-----------------------------------------------------------------------------
(* locate_parenthesis: the spans (start, end) of the depth-1 groups. *)

\* The loop of locate_parenthesis from code index i on; st holds the
\* local variables parenthesis_indices, depth and current.
RECURSIVE LocateFrom(_, _, _)
LocateFrom(s, i, st) ==
  IF i >= Len(s) THEN st.parenthesis_indices
  ELSE LET token == s[i + 1] IN
    IF token = "("
    THEN LocateFrom(s, i + 1,
           [st EXCEPT !.current = IF st.depth = 0 THEN i ELSE @,
                      !.depth = @ + 1])
    ELSE IF token = ")"
    THEN LocateFrom(s, i + 1,
           [st EXCEPT !.parenthesis_indices =
                         IF st.depth = 1 THEN Append(@, <<st.current, i>>)
                         ELSE @,
                      !.depth = @ - 1])
    ELSE LocateFrom(s, i + 1, st)

locate_parenthesis(s) ==
  LocateFrom(s, 0, [parenthesis_indices |-> <<>>, depth |-> 0,
                    current |-> USIZE_MAX])

-----------------------------------------------------------------------------
(* find_minimum_priority_token *)

\* The last character of s[..i] that is not ASCII whitespace is an operator.
RECURSIVE PrevIsOperator(_, _)
PrevIsOperator(s, i) ==
  IF i = 0 THEN FALSE
  ELSE IF is_ascii_whitespace(s[i]) THEN PrevIsOperator(s, i - 1)
  ELSE IsOperatorChar(s[i])

\* is_negation for the token at code index i.
is_negation(s, i) ==
  s[i + 1] = "-" /\ (i = 0 \/ PrevIsOperator(s, i))

\* The priority table with the negation marker below exponentiation.
priority_NegationLoose(token, neg) ==
  CASE token = "(" -> 5
    [] token = "-" /\ neg -> 2
    [] token = "^" -> 3
    [] token \in {"*", "/"} -> 2
    [] token \in {"+", "-"} -> 1
    [] OTHER -> U8_MAX

\* The priority of a token that is not skipped (' ', '\n' and '\r' are
\* skipped before a priority is used).
priority(token, neg) ==
  CASE token = "(" -> 5
    [] token = "-" /\ neg -> 4
    [] token = "^" -> 3
    [] token \in {"*", "/"} -> 2
    [] token \in {"+", "-"} -> 1
    [] OTHER -> U8_MAX

\* The ordinary-token arm with a strict comparison.
OrdinaryArm_Strict(min, i, p) ==
  IF min[2] > p THEN <<i, STORED_PRIORITY>> ELSE min

\* The `_` arm of the scanner's second match: an ordinary token at i.
OrdinaryArm(min, i, p) ==
  IF min[2] >= p THEN <<i, STORED_PRIORITY>> ELSE min

\* The negation arm: a strictly lower priority replaces the best.
NegationArm(min, i, p) ==
  IF min[2] > p THEN <<i, p>> ELSE min

\* The loop of find_minimum_priority_token from code index i on; k is the
\* position of current_index in parenthesis_indices (past the end: None)
\* and min is min_priority_index.
RECURSIVE ScanFrom(_, _, _, _, _)
ScanFrom(s, spans, i, k, min) ==
  IF i >= Len(s) THEN min
  ELSE LET token == s[i + 1]
           neg == is_negation(s, i)
       IN
    IF k <= Len(spans) /\ i > spans[k][1] /\ i < spans[k][2]
    THEN ScanFrom(s, spans, i + 1, k, min)
    ELSE IF token \in {" ", "\n", "\r"}
    THEN ScanFrom(s, spans, i + 1, k, min)
    ELSE IF token = ")"
    THEN ScanFrom(s, spans, i + 1, IF k <= Len(spans) THEN k + 1 ELSE k, min)
    ELSE IF neg
    THEN ScanFrom(s, spans, i + 1, k, NegationArm(min, i, priority(token, neg)))
    ELSE ScanFrom(s, spans, i + 1, k, OrdinaryArm(min, i, priority(token, neg)))

find_minimum_priority_token(s, parenthesis_indices) ==
  ScanFrom(s, parenthesis_indices, 0, 1, <<USIZE_MAX, U8_MAX>>)[1]

-----------------------------------------------------------------------------
(***************************************************************************)
(* f64 values.  A finite value is a sign and a magnitude n/d in lowest     *)
(* terms (so zero is signed, as in IEEE 754); the infinities and NaN are   *)
(* values of their own.  Rounding is not modelled: a finite result is the  *)
(* exact rational.  A result whose numerator or denominator exceeds        *)
(* MaxExact, and a power that is not an integer power of a finite base,    *)
(* is kept as an uninterpreted term over its operands, so two such values  *)
(* are equal only when they were computed the same way.                    *)
(***************************************************************************)

RECURSIVE Gcd(_, _)
Gcd(a, b) == IF b = 0 THEN a ELSE Gcd(b, a % b)

\* a * b for naturals, saturating at MaxExact + 1.
SatMul(a, b) ==
  IF a = 0 \/ b = 0 THEN 0
  ELSE IF a > MaxExact \/ b > MaxExact \/ a > MaxExact \div b
  THEN MaxExact + 1
  ELSE a * b

\* The kinds of value that are not interpreted.
Opaque == {"term", "big"}

NaN == [k |-> "nan"]

Inf(sign) == [k |-> "inf", s |-> sign]

Term(o, x, y) == [k |-> "term", op |-> o, l |-> x, r |-> y]

\* The finite value sign * n / d, or the term t when it is out of range.
Fin(sign, n, d, t) ==
  IF n > MaxExact \/ d > MaxExact THEN t
  ELSE LET g == Gcd(n, d) IN
    [k |-> "fin", s |-> sign, n |-> n \div g, d |-> d \div g]

Zero(sign) == [k |-> "fin", s |-> sign, n |-> 0, d |-> 1]

One == [k |-> "fin", s |-> 1, n |-> 1, d |-> 1]

IsZero(x) == x.k = "fin" /\ x.n = 0

\* -x
Neg(x) ==
  CASE x.k = "fin" -> [x EXCEPT !.s = -x.s]
    [] x.k = "inf" -> [x EXCEPT !.s = -x.s]
    [] x.k = "nan" -> x
    [] OTHER -> Term("neg", x, x)

\* x + y
Add(x, y) ==
  CASE x.k \in Opaque \/ y.k \in Opaque -> Term("add", x, y)
    [] x.k = "nan" \/ y.k = "nan" -> NaN
    [] x.k = "inf" /\ y.k = "inf" -> IF x.s = y.s THEN x ELSE NaN
    [] x.k = "inf" -> x
    [] y.k = "inf" -> y
    [] OTHER ->
       LET a == SatMul(x.n, y.d)
           b == SatMul(y.n, x.d)
           d == SatMul(x.d, y.d)
           t == Term("add", x, y)
       IN IF x.n = 0 /\ y.n = 0
          THEN Zero(IF x.s = -1 /\ y.s = -1 THEN -1 ELSE 1)
          ELSE IF a > MaxExact \/ b > MaxExact \/ d > MaxExact THEN t
          ELSE IF x.s = y.s THEN Fin(x.s, a + b, d, t)
          ELSE IF a = b THEN Zero(1)
          ELSE IF a > b THEN Fin(x.s, a - b, d, t)
          ELSE Fin(y.s, b - a, d, t)

\* x - y
Sub(x, y) ==
  IF x.k \in Opaque \/ y.k \in Opaque THEN Term("sub", x, y) ELSE Add(x, Neg(y))

\* x * y
Mul(x, y) ==
  CASE x.k \in Opaque \/ y.k \in Opaque -> Term("mul", x, y)
    [] x.k = "nan" \/ y.k = "nan" -> NaN
    [] x.k = "inf" /\ y.k = "inf" -> Inf(x.s * y.s)
    [] x.k = "inf" -> IF IsZero(y) THEN NaN ELSE Inf(x.s * y.s)
    [] y.k = "inf" -> IF IsZero(x) THEN NaN ELSE Inf(x.s * y.s)
    [] OTHER -> Fin(x.s * y.s, SatMul(x.n, y.n), SatMul(x.d, y.d),
                    Term("mul", x, y))

\* x / y
Div(x, y) ==
  CASE x.k \in Opaque \/ y.k \in Opaque -> Term("div", x, y)
    [] x.k = "nan" \/ y.k = "nan" -> NaN
    [] x.k = "inf" /\ y.k = "inf" -> NaN
    [] x.k = "inf" -> Inf(x.s * y.s)
    [] y.k = "inf" -> Zero(x.s * y.s)
    [] y.n = 0 -> IF x.n = 0 THEN NaN ELSE Inf(x.s * y.s)
    [] x.n = 0 -> Zero(x.s * y.s)
    [] OTHER -> Fin(x.s * y.s, SatMul(x.n, y.d), SatMul(x.d, y.n),
                    Term("div", x, y))

\* acc * b^e for naturals, saturating at MaxExact + 1.
RECURSIVE SatPowAcc(_, _, _)
SatPowAcc(b, e, acc) ==
  IF e = 0 \/ acc > MaxExact THEN acc
  ELSE SatPowAcc(b, e - 1, SatMul(acc, b))

\* b^e for naturals, saturating at MaxExact + 1.
SatPow(b, e) == IF b <= 1 /\ e > 0 THEN b ELSE SatPowAcc(b, e, 1)

\* x.powf(y): exact for an integer power of a finite base (and for the
\* cases that are 1 whatever the other operand), a term otherwise.
Pow(x, y) ==
  CASE y.k = "fin" /\ y.n = 0 -> One
    [] x = One -> One
    [] x.k = "fin" /\ y.k = "fin" /\ y.d = 1 /\ y.n <= MaxExact ->
       LET odd == y.n % 2 = 1
           sign == IF x.s = -1 /\ odd THEN -1 ELSE 1
           t == Term("powf", x, y)
       IN IF x.n = 0
          THEN (IF y.s = 1 THEN Zero(sign) ELSE Inf(sign))
          ELSE IF y.s = 1
          THEN Fin(sign, SatPow(x.n, y.n), SatPow(x.d, y.n), t)
          ELSE Fin(sign, SatPow(x.d, y.n), SatPow(x.n, y.n), t)
    [] OTHER -> Term("powf", x, y)

-----------------------------------------------------------------------------
(***************************************************************************)
(* str::parse::<f64>, the host parser of a leaf:                           *)
(*   Float  ::= Sign? Number        Sign ::= '+' | '-'                     *)
(*   Number ::= (Digit+ | Digit+ '.' Digit* | Digit* '.' Digit+) Exp?      *)
(*   Exp    ::= ('e' | 'E') Sign? Digit+                                   *)
(* It accepts no surrounding or embedded whitespace.  The names inf,       *)
(* infinity and nan are left out: no modelled input spells them.           *)
(***************************************************************************)

AllDigits(s) == \A i \in 1..Len(s) : s[i] \in Digits

DigitValue(c) ==
  CASE c = "0" -> 0 [] c = "1" -> 1 [] c = "2" -> 2 [] c = "3" -> 3
    [] c = "4" -> 4 [] c = "5" -> 5 [] c = "6" -> 6 [] c = "7" -> 7
    [] c = "8" -> 8 [] c = "9" -> 9

\* The number a digit string spells, saturating at MaxExact + 1.
RECURSIVE DigitsValue(_, _)
DigitsValue(s, acc) ==
  IF s = <<>> THEN acc
  ELSE LET ten == SatMul(acc, 10) IN
    DigitsValue(Tail(s),
      IF ten > MaxExact THEN MaxExact + 1 ELSE ten + DigitValue(Head(s)))

\* The code index of the first character of s in set cs, or Len(s).
RECURSIVE IndexOf(_, _, _)
IndexOf(s, cs, i) ==
  IF i >= Len(s) \/ s[i + 1] \in cs THEN i ELSE IndexOf(s, cs, i + 1)

ParseError == [ok |-> FALSE, value |-> NaN]

\* Sign? Number over the unsigned part body, with the sign already read.
ParseUnsigned(sign, body, whole) ==
  LET ePos == IndexOf(body, {"e", "E"}, 0)
      mant == Slice(body, 0, ePos)
      hasExp == ePos < Len(body)
      exp == IF hasExp THEN Slice(body, ePos + 1, Len(body)) ELSE <<>>
      expSigned == exp # <<>> /\ exp[1] \in {"+", "-"}
      expSign == IF expSigned /\ exp[1] = "-" THEN -1 ELSE 1
      expDigits == IF expSigned THEN Tail(exp) ELSE exp
      dot == IndexOf(mant, {"."}, 0)
      int == Slice(mant, 0, dot)
      frac == IF dot < Len(mant) THEN Slice(mant, dot + 1, Len(mant)) ELSE <<>>
      mantOk == AllDigits(int) /\ AllDigits(frac) /\ Len(int) + Len(frac) >= 1
      expOk == ~hasExp \/ (expDigits # <<>> /\ AllDigits(expDigits))
  IN IF ~(mantOk /\ expOk) THEN ParseError
     ELSE LET m == DigitsValue(int \o frac, 0)
              e == expSign * DigitsValue(expDigits, 0) - Len(frac)
              t == [k |-> "big", text |-> whole]
              p == IF e >= 0 THEN SatPow(10, e) ELSE SatPow(10, -e)
          IN [ok |-> TRUE,
              value |-> IF m = 0 THEN Zero(sign)
                        ELSE IF m > MaxExact THEN t
                        ELSE IF e >= 0 THEN Fin(sign, SatMul(m, p), 1, t)
                        ELSE Fin(sign, m, p, t)]

\* s.parse::<f64>()
ParseFloat(s) ==
  IF s = <<>> THEN ParseError
  ELSE IF s[1] = "-" THEN ParseUnsigned(-1, Tail(s), s)
  ELSE IF s[1] = "+" THEN ParseUnsigned(1, Tail(s), s)
  ELSE ParseUnsigned(1, s, s)

-----------------------------------------------------------------------------
(* Expression and BinaryOperator. *)

Number(x) == [kind |-> "Number", value |-> x]

UnaryNegation(e) == [kind |-> "UnaryNegation", operand |-> e]

Parenthesis(e) == [kind |-> "Parenthesis", operand |-> e]

BinaryOperation(o, l, r) ==
  [kind |-> "BinaryOperation", operator |-> o, left |-> l, right |-> r]

\* Result values: Ok(v), Err(report), and the abort of a failed slice.
Ok(v) == [tag |-> "Ok", val |-> v]

Err(m) == [tag |-> "Err", msg |-> m]

Panic == [tag |-> "Panic"]

\* impl TryFrom<char> for BinaryOperator
BinaryOperator_try_from(c) ==
  CASE c = "+" -> Ok("Addition")
    [] c = "-" -> Ok("Subtraction")
    [] c = "*" -> Ok("Multiplication")
    [] c = "/" -> Ok("Division")
    [] c = "^" -> Ok("Exponentiation")
    [] OTHER -> Err("Invalid operator")

\* The operator's arithmetic in Expression::evaluate.
Apply(o, x, y) ==
  CASE o = "Addition" -> Add(x, y)
    [] o = "Subtraction" -> Sub(x, y)
    [] o = "Multiplication" -> Mul(x, y)
    [] o = "Division" -> Div(x, y)
    [] o = "Exponentiation" -> Pow(x, y)

\* Expression::evaluate
RECURSIVE evaluate(_)
evaluate(e) ==
  CASE e.kind = "BinaryOperation" ->
         Apply(e.operator, evaluate(e.left), evaluate(e.right))
    [] e.kind = "UnaryNegation" -> Neg(evaluate(e.operand))
    [] e.kind = "Parenthesis" -> evaluate(e.operand)
    [] e.kind = "Number" -> e.value

-----------------------------------------------------------------------------
(* Expression::from_str *)

\* What one call of from_str does before it recurses: s is the trimmed
\* string, index is min_priority_index, and arm is the arm of the match
\* that is taken ("IndexOutOfRange" when chars().nth(index) is None,
\* "SlicePanic" when the range 1..s.len() - 1 of the '(' arm is invalid).
Dispatch(input) ==
  LET s == trim_matches(input)
      parenthesis_indices == locate_parenthesis(s)
      min_priority_index == find_minimum_priority_token(s, parenthesis_indices)
      base == [s |-> s, spans |-> parenthesis_indices,
               index |-> min_priority_index]
  IN IF min_priority_index >= Len(s)
     THEN [arm |-> "IndexOutOfRange"] @@ base
     ELSE LET token == s[min_priority_index + 1] IN
       IF token = "-" /\ min_priority_index = 0
       THEN [arm |-> "UnaryNegation"] @@ base
       ELSE IF IsOperatorChar(token)
       THEN [arm |-> "BinaryOperation", token |-> token] @@ base
       ELSE IF token = "("
       THEN (IF 1 > Len(s) - 1 THEN [arm |-> "SlicePanic"] @@ base
             ELSE [arm |-> "Parenthesis"] @@ base)
       ELSE [arm |-> "Number"] @@ base

RECURSIVE from_str(_)
from_str(input) ==
  LET d == Dispatch(input)
      s == d.s
      i == d.index
  IN CASE d.arm = "IndexOutOfRange" -> Err("Index out of range")
       [] d.arm = "UnaryNegation" ->
          LET r == from_str(Slice(s, i + 1, Len(s))) IN
          IF r.tag = "Ok" THEN Ok(UnaryNegation(r.val)) ELSE r
       [] d.arm = "BinaryOperation" ->
          LET operator == BinaryOperator_try_from(d.token) IN
          IF operator.tag # "Ok" THEN operator
          ELSE LET left == from_str(Slice(s, 0, i)) IN
            IF left.tag # "Ok" THEN left
            ELSE LET right == from_str(Slice(s, i + 1, Len(s))) IN
              IF right.tag # "Ok" THEN right
              ELSE Ok(BinaryOperation(operator.val, left.val, right.val))
       [] d.arm = "SlicePanic" -> Panic
       [] d.arm = "Parenthesis" ->
          LET r == from_str(Slice(s, 1, Len(s) - 1)) IN
          IF r.tag = "Ok" THEN Ok(Parenthesis(r.val)) ELSE r
       [] d.arm = "Number" ->
          LET x == ParseFloat(s) IN
          IF x.ok THEN Ok(Number(x.value))
          ELSE Err("invalid float literal")

\* The Dispatch records of every from_str call that from_str(input) makes,
\* itself included, in the order and under the conditions of the code (the
\* right operand is parsed only when the left one succeeded).
RECURSIVE Calls(_)
Calls(input) ==
  LET d == Dispatch(input)
      s == d.s
      i == d.index
  IN {d} \cup
     CASE d.arm = "UnaryNegation" -> Calls(Slice(s, i + 1, Len(s)))
       [] d.arm = "BinaryOperation" ->
          Calls(Slice(s, 0, i)) \cup
          (IF from_str(Slice(s, 0, i)).tag = "Ok"
           THEN Calls(Slice(s, i + 1, Len(s))) ELSE {})
       [] d.arm = "Parenthesis" -> Calls(Slice(s, 1, Len(s) - 1))
       [] OTHER -> {}

-----------------------------------------------------------------------------
(* main: prompt, read one line, parse it, print its value. *)

None == [tag |-> "None"]

\* stdin.read_line(&mut buffer): appends the bytes up to and including the
\* first line feed (all of them when there is none).
ReadLine ==
  /\ pc = "read_line"
  /\ LET nl == IndexOf(stdin, {"\n"}, 0)
         n == IF nl < Len(stdin) THEN nl + 1 ELSE nl
     IN /\ buffer' = buffer \o Slice(stdin, 0, n)
        /\ stdin' = Slice(stdin, n, Len(stdin))
  /\ pc' = "from_str"
  /\ UNCHANGED <<given, expression, output>>

\* Expression::from_str(&buffer)?: an Err ends main with the report, a
\* panic aborts the process.
Parse ==
  /\ pc = "from_str"
  /\ expression' = from_str(buffer)
  /\ pc' = CASE expression'.tag = "Ok" -> "evaluate"
             [] expression'.tag = "Err" -> "exit_err"
             [] OTHER -> "panicked"
  /\ UNCHANGED <<given, stdin, buffer, output>>

\* println!("{}", expression.evaluate())
EvaluatePrintln ==
  /\ pc = "evaluate"
  /\ output' = Ok(evaluate(expression.val))
  /\ pc' = "exit_ok"
  /\ UNCHANGED <<given, stdin, buffer, expression>>

Next == ReadLine \/ Parse \/ EvaluatePrintln

-----------------------------------------------------------------------------
(***************************************************************************)
(* The lines the environment types.  `given` records how the line was      *)
(* put together: a shape and the tokens that are concatenated; stdin is    *)
(* that text followed by the line feed of the terminal.                    *)
(***************************************************************************)

RECURSIVE Concat(_)
Concat(parts) == IF parts = <<>> THEN <<>> ELSE Head(parts) \o Concat(Tail(parts))

\* The characters of free-form lines.
Alphabet == {"2", "3", "+", "-", "*", "(", ")", " ", "\t"}

\* All strings over cs of length exactly n.
RECURSIVE StringsOfLen(_, _)
StringsOfLen(cs, n) ==
  IF n = 0 THEN {<<>>}
  ELSE {Append(s, c) : s \in StringsOfLen(cs, n - 1), c \in cs}

StringsUpTo(cs, n) == UNION {StringsOfLen(cs, m) : m \in 0..n}

Operators == {"+", "-", "*", "/", "^"}

\* Literals of the three-operand forms.
SmallLiterals == {<<"1">>, <<"2">>, <<"3">>, <<"4">>}

SignedSmallLiterals == SmallLiterals \cup {<<"-", "2">>}

\* Unsigned literals: integers of up to MaxDigits digits, and literals with
\* a fractional part or an unsigned exponent.
LiteralDigits == {"2", "3", "4", "5"}

IntLiterals == UNION {StringsOfLen(LiteralDigits, m) : m \in 1..MaxDigits}

UnsignedLiterals ==
  IntLiterals \cup
  {<<"3", ".", "5">>, <<".", "5">>, <<"5", ".">>, <<"1", "e", "3">>, <<"0">>}

\* Literals with a signed exponent.
SignedExponentLiterals ==
  {<<"1", "e", "-", "3">>, <<"1", "e", "+", "3">>, <<"2", ".", "5", "e", "-", "1">>}

NumericLiterals ==
  UnsignedLiterals \cup SignedExponentLiterals \cup
  {<<"-">> \o n : n \in UnsignedLiterals \cup SignedExponentLiterals}

Form(shape, parts) == [shape |-> shape, parts |-> parts]

\* a op1 b op2 c
BinaryForms ==
  {Form("binary", <<a, <<op1>>, b, <<op2>>, c>>) :
     a \in SignedSmallLiterals, b \in SignedSmallLiterals,
     c \in SignedSmallLiterals, op1 \in Operators, op2 \in Operators}

\* (a op1 b) op2 c  and  c op2 (a op1 b)
GroupForms ==
  {Form("group_left", <<<<"(">>, a, <<op1>>, b, <<")">>, <<op2>>, c>>) :
     a \in SmallLiterals, b \in SmallLiterals, c \in SmallLiterals,
     op1 \in Operators, op2 \in Operators}
  \cup
  {Form("group_right", <<c, <<op2>>, <<"(">>, a, <<op1>>, b, <<")">>>>) :
     a \in SmallLiterals, b \in SmallLiterals, c \in SmallLiterals,
     op1 \in Operators, op2 \in Operators}

\* -a^b
NegPowForms ==
  {Form("neg_pow", <<<<"-">>, a, <<"^">>, b>>) :
     a \in UnsignedLiterals, b \in UnsignedLiterals}

\* k negation markers before a literal
NegChainForms ==
  {Form("neg_chain", [i \in 1..k |-> <<"-">>] \o <<n>>) :
     k \in 1..MaxNeg, n \in UnsignedLiterals}

\* a op -b
OpNegForms ==
  {Form("op_neg", <<a, <<op>>, <<"-">>, b>>) :
     a \in SmallLiterals, b \in SmallLiterals, op \in Operators}

\* a literal on its own
LiteralForms == {Form("literal", <<n>>) : n \in NumericLiterals}

Forms ==
  BinaryForms \cup GroupForms \cup NegPowForms \cup NegChainForms \cup
  OpNegForms \cup LiteralForms

TextForms == {Form("text", <<s>>) : s \in StringsUpTo(Alphabet, MaxLen)}

InitWith(inputs) ==
  /\ given \in inputs
  /\ stdin = Concat(given.parts) \o <<"\n">>
  /\ buffer = <<>>
  /\ pc = "read_line"
  /\ expression = None
  /\ output = None

\* Free-form lines: every string over Alphabet of at most MaxLen characters.
Init == InitWith(TextForms)

Spec == Init /\ [][Next]_vars

\* Lines of the forms that the properties of precedence, associativity,
\* grouping, negation and literals are about.
InitForms == InitWith(Forms)

SpecForms == InitForms /\ [][Next]_vars

\* The line that was typed, without its line feed.
Line == Concat(given.parts)

\* from_str has returned or aborted.
Parsed == pc \in {"evaluate", "exit_ok", "exit_err", "panicked"}


-----------------------------------------------------------------------------
(* Vocabulary of the properties. *)

\* The token at position i of the typed form.
Part(i) == given.parts[i]

\* The value and the leaf of a literal token.
ValueOf(tok) == ParseFloat(tok).value

Leaf(tok) == Number(ValueOf(tok))

\* The operator a character stands for.
OperatorOf(c) ==
  CASE c = "+" -> "Addition"
    [] c = "-" -> "Subtraction"
    [] c = "*" -> "Multiplication"
    [] c = "/" -> "Division"
    [] c = "^" -> "Exponentiation"

\* The precedence classes: + and - lowest, * and / middle, ^ highest.
PrecedenceClass(c) ==
  CASE c \in {"+", "-"} -> 1
    [] c \in {"*", "/"} -> 2
    [] c = "^" -> 3

IsUnsignedInteger(tok) == tok # <<>> /\ AllDigits(tok)

\* The tree and the value that main must have produced: expression is
\* Ok(tree) and, once printed, the output is the tree's value.
Yields(tree) ==
  /\ expression = Ok(tree)
  /\ pc = "exit_ok" => output = Ok(evaluate(tree))

\* k negations around a tree.
RECURSIVE Negated(_, _)
Negated(k, tree) == IF k = 0 THEN tree ELSE UnaryNegation(Negated(k - 1, tree))

-----------------------------------------------------------------------------
\* C1: in a parenthesis-free line a op1 b op2 c with non-negative integer
\* literals and operators of different precedence classes, the operator of
\* the higher class is applied first, whichever of the two comes first:
\* the tree is (a op1 b) op2 c when op1 is the higher one and
\* a op1 (b op2 c) when op2 is.
C1_HigherPrecedenceFirst ==
  (/\ Parsed
   /\ given.shape = "binary"
   /\ IsUnsignedInteger(Part(1)) /\ IsUnsignedInteger(Part(3))
   /\ IsUnsignedInteger(Part(5))
   /\ PrecedenceClass(Part(2)[1]) # PrecedenceClass(Part(4)[1]))
  => LET op1 == Part(2)[1]
         op2 == Part(4)[1]
         a == Leaf(Part(1))
         b == Leaf(Part(3))
         c == Leaf(Part(5))
     IN IF PrecedenceClass(op1) > PrecedenceClass(op2)
        THEN Yields(BinaryOperation(OperatorOf(op2),
                      BinaryOperation(OperatorOf(op1), a, b), c))
        ELSE Yields(BinaryOperation(OperatorOf(op1), a,
                      BinaryOperation(OperatorOf(op2), b, c)))

\* C2: in a parenthesis-free line a op1 b op2 c with numeric literals and
\* operators of one precedence class, the root of the tree is op2, its left
\* subtree has the value of a op1 b and its right subtree the value of c,
\* so that the line's value is (a op1 b) op2 c.
C2_LeftAssociative ==
  (/\ Parsed
   /\ given.shape = "binary"
   /\ PrecedenceClass(Part(2)[1]) = PrecedenceClass(Part(4)[1]))
  => LET op1 == OperatorOf(Part(2)[1])
         op2 == OperatorOf(Part(4)[1])
         ab == Apply(op1, ValueOf(Part(1)), ValueOf(Part(3)))
         c == ValueOf(Part(5))
     IN /\ expression.tag = "Ok"
        /\ expression.val.kind = "BinaryOperation"
        /\ expression.val.operator = op2
        /\ evaluate(expression.val.left) = ab
        /\ evaluate(expression.val.right) = c
        /\ pc = "exit_ok" => output = Ok(Apply(op2, ab, c))

\* C2 restricted to literals without a sign: this much of C2 holds.
C2_LeftAssociativeUnsigned ==
  (/\ given.shape = "binary"
   /\ IsUnsignedInteger(Part(1)) /\ IsUnsignedInteger(Part(3))
   /\ IsUnsignedInteger(Part(5)))
  => C2_LeftAssociative

\* C3: when a balanced group is the left or the right operand of a
\* top-level operator, the line splits at that operator, the group becomes
\* a Parenthesis node over its own content, and the value is the group's
\* value combined with the other operand.
C3_ParenthesisOverride ==
  /\ (Parsed /\ given.shape = "group_left")
     => Yields(BinaryOperation(OperatorOf(Part(6)[1]),
                 Parenthesis(BinaryOperation(OperatorOf(Part(3)[1]),
                                             Leaf(Part(2)), Leaf(Part(4)))),
                 Leaf(Part(7))))
  /\ (Parsed /\ given.shape = "group_right")
     => Yields(BinaryOperation(OperatorOf(Part(2)[1]),
                 Leaf(Part(1)),
                 Parenthesis(BinaryOperation(OperatorOf(Part(5)[1]),
                                             Leaf(Part(4)), Leaf(Part(6))))))

\* C4, as claimed: a line -a^b with non-negative literals is the negation
\* of the power a^b, so that -5^2 is -25.
C4_NegationLooserThanPower ==
  (Parsed /\ given.shape = "neg_pow")
  => Yields(UnaryNegation(BinaryOperation("Exponentiation",
                                          Leaf(Part(2)), Leaf(Part(4)))))

\* C4, as amended: a line -a^b with non-negative literals (digits, with an
\* optional fractional part or unsigned exponent) is the power of the
\* negation of a, (-a)^b, so that -5^2 is 25.
C4_NegationTighterThanPower ==
  (Parsed /\ given.shape = "neg_pow")
  => /\ Yields(BinaryOperation("Exponentiation",
                               UnaryNegation(Leaf(Part(2))), Leaf(Part(4))))
     /\ pc = "exit_ok" => output = Ok(Pow(Neg(ValueOf(Part(2))), ValueOf(Part(4))))

\* C4 witness: -5^2 was printed as 25.
C4_Witness ==
  /\ pc = "exit_ok"
  /\ given = Form("neg_pow", <<<<"-">>, <<"5">>, <<"^">>, <<"2">>>>)
  /\ output = Ok([k |-> "fin", s |-> 1, n |-> 25, d |-> 1])

\* C5: every negation marker is parsed as a UnaryNegation of what follows
\* it: k leading markers before a literal n give k nested negations of n,
\* and a op -b gives a op (-b), for every binary operator op.
C5_NegationMarkersAreUnary ==
  /\ (Parsed /\ given.shape = "neg_chain")
     => Yields(Negated(Len(given.parts) - 1, Leaf(Part(Len(given.parts)))))
  /\ (Parsed /\ given.shape = "op_neg")
     => Yields(BinaryOperation(OperatorOf(Part(2)[1]), Leaf(Part(1)),
                               UnaryNegation(Leaf(Part(4)))))

\* The depth of parentheses after each prefix of s never goes below zero
\* and ends at zero.
RECURSIVE BalancedFrom(_, _, _)
BalancedFrom(s, i, depth) ==
  IF depth < 0 THEN FALSE
  ELSE IF i > Len(s) THEN depth = 0
  ELSE BalancedFrom(s, i + 1,
         CASE s[i] = "(" -> depth + 1 [] s[i] = ")" -> depth - 1
           [] OTHER -> depth)

\* A line that is empty, has an unmatched parenthesis, or has a binary
\* operator with no operand at the start or at the end of the line.
Malformed(s) ==
  \/ s = <<>>
  \/ ~BalancedFrom(s, 1, 0)
  \/ s[1] \in {"+", "*", "/", "^"}
  \/ IsOperatorChar(s[Len(s)])

\* C6: from_str returns an Err for every malformed line: it neither returns
\* Ok with a tree nor aborts.
C6_MalformedIsErr ==
  (Parsed /\ Malformed(trim_matches(Line))) => expression.tag = "Err"

\* C7: a numeric literal on its own parses, and evaluates to the value that
\* the float parser gives for it.
C7_LiteralIsItsValue ==
  (Parsed /\ given.shape = "literal")
  => /\ ParseFloat(Line).ok
     /\ expression.tag = "Ok"
     /\ evaluate(expression.val) = ValueOf(Line)
     /\ pc = "exit_ok" => output = Ok(ValueOf(Line))

\* What a caller observes of from_str followed by evaluate.
Outcome(r) ==
  [tag |-> r.tag, value |-> IF r.tag = "Ok" THEN evaluate(r.val) ELSE None]

Whitespace == {" ", "\n", "\r", "\t"}

\* A character of a literal: no operator, parenthesis or whitespace.
IsLiteralChar(c) ==
  ~IsOperatorChar(c) /\ c \notin {"(", ")"} /\ c \notin Whitespace

\* Code index p of s is a place before the first token, after the last
\* one, or between two tokens: it does not lie inside a literal.
BetweenTokens(s, p) ==
  p = 0 \/ p = Len(s) \/ ~(IsLiteralChar(s[p]) /\ IsLiteralChar(s[p + 1]))

\* s with the character w put in at code index p.
Insert(s, p, w) == SubSeq(s, 1, p) \o <<w>> \o SubSeq(s, p + 1, Len(s))

C9_GroupSpansWholeString ==
  Parsed =>
    \A d \in Calls(buffer) :
      d.arm \in {"Parenthesis", "SlicePanic"} =>
        /\ d.index = 0
        /\ Len(d.s) >= 2
        /\ d.spans = <<<<0, Len(d.s) - 1>>>>

\* No operator and no '(' follows the first character of d.s outside the
\* recorded spans.
NoLaterToken(d) ==
  \A i \in 1..(Len(d.s) - 1) :
    (\A k \in 1..Len(d.spans) : ~(i > d.spans[k][1] /\ i < d.spans[k][2]))
      => ~IsOperatorChar(d.s[i + 1]) /\ d.s[i + 1] # "("

=============================================================================
